---- MODULE Spec2Model ----
(***************************************************************************)
(* Credential lifecycle of the QA monitor: the User model (password        *)
(* hashing hook, reset-token issue / clear), POST /forgot-password,        *)
(* POST /reset-password, the login endpoint and the login page's submit    *)
(* handler.                                                                *)
(*                                                                         *)
(* Strings are kept as strings.  bcrypt and sha256 are symbolic: a hash    *)
(* is a string built from what the function reads of its input, so two     *)
(* inputs hash alike exactly when the function cannot tell them apart.     *)
(* Dates are milliseconds since the start of the run.                      *)
(***************************************************************************)
EXTENDS Integers, Sequences, FiniteSets, TLC

VARIABLES
    users,      \* the users collection: a sequence of documents, _id = index
    now,        \* the server clock (Date.now()), in ms
    nextRandom, \* how many crypto.randomBytes(32) values have been drawn
    authToken,  \* the browser's localStorage item 'auth-token'
    consumed,   \* history: reset tokens a successful reset has used
    superseded, \* history: reset tokens a later issue has overwritten
    reqs,       \* the requests in flight, each with its own loaded document
    route,      \* the browser: the page shown and what its URL carries
    testForm,   \* a mounted TestExecutionForm: its state and its calls in flight
    tagCtx      \* the TagProvider: the reducer's state and the runs in flight

vars == <<users, now, nextRandom, authToken, consumed, superseded, reqs, route, testForm,
          tagCtx>>

---------------------------------------------------------------------------
\* Bounds of the model.

MaxUsers == 2
MaxTokens == 2

\* The instants the clock visits: 0, 9 min, 10 min, 10 min + 1 s.
Instants == {0, 9 * 60 * 1000, 10 * 60 * 1000, 10 * 60 * 1000 + 1000}

\* Values of crypto.randomBytes(32).toString('hex'), in the order drawn.
RandomHex == <<"r1", "r2", "r3", "r4", "r5">>

\* What bcrypt.genSalt returns in the model.
Salts == {"s1"}

\* A secret of exactly 72 bytes.
Secret72 == "0123456789012345678901234567890123456789012345678901234567890123456789ab"

Secrets == {"hunter2x", Secret72}
EmailInputs == {"al@x.io", "AL@X.io", "bo@x.io", "cy@x.io", ""}
Envs == {"development", "production", "test"}

\* What can go wrong inside a request: nothing, connectToDatabase rejecting,
\* the write of save() failing, bcrypt throwing inside the pre-save hook.
Faults == {"none", "connect", "save", "hash"}

---------------------------------------------------------------------------
\* Values.

Undefined == "undefined"
NoDate == -1

\* String.prototype.toLowerCase, on the letters the inputs use.
LowerChar(c) ==
    CASE c = "A" -> "a"
      [] c = "L" -> "l"
      [] c = "X" -> "x"
      [] c = "B" -> "b"
      [] OTHER -> c

RECURSIVE ToLower(_)
ToLower(s) ==
    IF s = "" THEN ""
    ELSE LowerChar(SubSeq(s, 1, 1)) \o ToLower(SubSeq(s, 2, Len(s)))

\* crypto.createHash('sha256').update(t).digest('hex'): deterministic and
\* collision-free on the tokens of the model.
Sha256(t) == "sha256:" \o t

\* bcryptjs reads its key 18 words of 4 bytes at a time: bytes past the 72nd
\* never enter the key schedule.
BcryptKeyBytes == 72
BcryptPrefix == "$2a$12$"
SaltLen == Len("s1")

BcryptKey(password) ==
    IF Len(password) > BcryptKeyBytes THEN SubSeq(password, 1, BcryptKeyBytes)
    ELSE password

\* bcrypt.hash(password, salt): version and cost, the salt, the digest.
BcryptHash(password, salt) == BcryptPrefix \o salt \o "#" \o BcryptKey(password)

IsBcryptHash(s) ==
    /\ Len(s) > Len(BcryptPrefix) + SaltLen
    /\ SubSeq(s, 1, Len(BcryptPrefix)) = BcryptPrefix

\* bcrypt.compare(candidate, hash): re-hash the candidate with the salt read
\* from the hash and compare; anything that is not a hash compares false.
BcryptCompare(candidate, hash) ==
    /\ IsBcryptHash(hash)
    /\ BcryptHash(candidate,
                  SubSeq(hash, Len(BcryptPrefix) + 1, Len(BcryptPrefix) + SaltLen)) = hash

---------------------------------------------------------------------------
\* The User model (src/models/User.ts).

MinPasswordLen == 6

\* Mutant: the schema without lowercase: true.
NewUserDoc_KeepsCase(name, email, password) ==
    [name |-> name,
     email |-> email,
     password |-> password,
     isActive |-> TRUE,
     isFirstLogin |-> TRUE,
     resetPasswordToken |-> Undefined,
     resetPasswordExpires |-> NoDate,
     lastLoginAt |-> NoDate]

\* A document of the collection, with the schema's defaults.
NewUserDoc(name, email, password) ==
    [name |-> name,
     email |-> ToLower(email),
     password |-> password,
     isActive |-> TRUE,
     isFirstLogin |-> TRUE,
     resetPasswordToken |-> Undefined,
     resetPasswordExpires |-> NoDate,
     lastLoginAt |-> NoDate]

\* A document as a request holds it: its field values and the paths set
\* since it was loaded (isModified).
Hydrate(d) == [doc |-> d, modified |-> {}]

\* Assigning a path: mongoose marks it modified when the value changes.
SetPath(m, path, v) ==
    IF m.doc[path] = v THEN m
    ELSE [doc |-> [m.doc EXCEPT ![path] = v], modified |-> m.modified \cup {path}]

\* UserSchema.pre('save'): hash the password when, and only when, it was set.
\* The result is the document to write, or the error handed to next().
PreSaveHashError == [doc |-> [name |-> "error"], modified |-> {"error"}]

\* Mutant: the hook hashes on every save, modified or not.
preSave_AlwaysHashes(m, salt, fault) ==
    IF fault = "hash" THEN PreSaveHashError
    ELSE [m EXCEPT !.doc.password = BcryptHash(m.doc.password, salt),
                   !.modified = m.modified \cup {"password"}]

\* Mutant: a hashing error is swallowed and the save goes on.
preSave_SwallowsError(m, salt, fault) ==
    IF "password" \notin m.modified \/ fault = "hash" THEN m
    ELSE [m EXCEPT !.doc.password = BcryptHash(m.doc.password, salt)]

preSave(m, salt, fault) ==
    IF "password" \notin m.modified THEN m
    ELSE IF fault = "hash" THEN PreSaveHashError
    ELSE [m EXCEPT !.doc.password = BcryptHash(m.doc.password, salt)]

\* Mutant: every candidate compares equal.
comparePassword_AlwaysTrue(d, candidatePassword) == TRUE

\* comparePassword
comparePassword(d, candidatePassword) == BcryptCompare(candidatePassword, d.password)

\* Mutant: issuing a token also sets isFirstLogin again.
generatePasswordResetToken_RearmsFirstLogin(m, resetToken, t) ==
    SetPath(SetPath(SetPath(m, "resetPasswordToken", Sha256(resetToken)),
                    "resetPasswordExpires", t + 10 * 60 * 1000),
            "isFirstLogin", TRUE)

\* Mutant: an outstanding token is kept instead of being overwritten.
generatePasswordResetToken_KeepsOutstanding(m, resetToken, t) ==
    IF m.doc.resetPasswordToken # Undefined THEN m
    ELSE SetPath(SetPath(m, "resetPasswordToken", Sha256(resetToken)),
                 "resetPasswordExpires", t + 10 * 60 * 1000)

\* generatePasswordResetToken: sets both fields on the document; the caller
\* gets the plaintext.
generatePasswordResetToken(m, resetToken, t) ==
    SetPath(SetPath(m, "resetPasswordToken", Sha256(resetToken)),
            "resetPasswordExpires", t + 10 * 60 * 1000)

\* Mutant: the expiry is left behind.
clearPasswordResetToken_TokenOnly(m) == SetPath(m, "resetPasswordToken", Undefined)

\* Mutant: the token fields are left as they are.
clearPasswordResetToken_Keeps(m) == m

\* clearPasswordResetToken
clearPasswordResetToken(m) ==
    SetPath(SetPath(m, "resetPasswordToken", Undefined),
            "resetPasswordExpires", NoDate)

\* Mutant: a failing write is tried again and goes through.
Save_RetriesOnce(db, id, m, salt, fault) ==
    LET h == preSave(m, salt, fault) IN
    IF h = PreSaveHashError THEN [ok |-> FALSE, db |-> db]
    ELSE [ok |-> TRUE,
          db |-> [db EXCEPT ![id] =
                    [p \in DOMAIN db[id] |->
                        IF p \in h.modified THEN h.doc[p] ELSE db[id][p]]]]

\* Mutant: a failing write has already unset the token fields.
Save_PartialOnFailure(db, id, m, salt, fault) ==
    LET h == preSave(m, salt, fault) IN
    IF h = PreSaveHashError THEN [ok |-> FALSE, db |-> db]
    ELSE IF fault = "save"
    THEN [ok |-> FALSE,
          db |-> [db EXCEPT ![id] =
                    [p \in DOMAIN db[id] |->
                        IF p \in h.modified \cap {"resetPasswordToken", "resetPasswordExpires"}
                        THEN h.doc[p] ELSE db[id][p]]]]
    ELSE [ok |-> TRUE,
          db |-> [db EXCEPT ![id] =
                    [p \in DOMAIN db[id] |->
                        IF p \in h.modified THEN h.doc[p] ELSE db[id][p]]]]

\* document.save(): the pre-save hook, then the write of the modified paths
\* onto the stored document.  ok = FALSE: save() rejected, nothing written.
Save(db, id, m, salt, fault) ==
    LET h == preSave(m, salt, fault) IN
    IF h = PreSaveHashError \/ fault = "save" THEN [ok |-> FALSE, db |-> db]
    ELSE [ok |-> TRUE,
          db |-> [db EXCEPT ![id] =
                    [p \in DOMAIN db[id] |->
                        IF p \in h.modified THEN h.doc[p] ELSE db[id][p]]]]

\* User.findOne(filter): the _id of the first document among the matching
\* ones, 0 for null.
FirstOf(ids) == IF ids = {} THEN 0 ELSE CHOOSE i \in ids : \A j \in ids : i <= j

\* { email: email }
ByEmail(db, email) == FirstOf({i \in 1..Len(db) : db[i].email = email})

\* Mutant: the filter also asks for an active account.
ByValidResetToken_ActiveOnly(db, hashedToken, t) ==
    FirstOf({i \in 1..Len(db) : /\ db[i].resetPasswordToken = hashedToken
                                /\ db[i].resetPasswordExpires # NoDate
                                /\ db[i].resetPasswordExpires > t
                                /\ db[i].isActive})

\* Mutant: the filter without the token condition.
ByValidResetToken_AnyToken(db, hashedToken, t) ==
    FirstOf({i \in 1..Len(db) : /\ db[i].resetPasswordExpires # NoDate
                                /\ db[i].resetPasswordExpires > t})

\* Mutant: the filter without the expiry condition.
ByValidResetToken_IgnoresExpiry(db, hashedToken, t) ==
    FirstOf({i \in 1..Len(db) : db[i].resetPasswordToken = hashedToken})

\* Mutant: $gte in place of $gt.
ByValidResetToken_Gte(db, hashedToken, t) ==
    FirstOf({i \in 1..Len(db) : /\ db[i].resetPasswordToken = hashedToken
                                /\ db[i].resetPasswordExpires # NoDate
                                /\ db[i].resetPasswordExpires >= t})

\* { resetPasswordToken: hashedToken, resetPasswordExpires: { $gt: new Date() } }
ByValidResetToken(db, hashedToken, t) ==
    FirstOf({i \in 1..Len(db) : /\ db[i].resetPasswordToken = hashedToken
                                /\ db[i].resetPasswordExpires # NoDate
                                /\ db[i].resetPasswordExpires > t})

---------------------------------------------------------------------------
\* POST /api/auth/forgot-password (src/app/api/auth/forgot-password/route.ts).
\* A handler's result: the collection after it, the status and JSON body it
\* answers with, the reset tokens it wrote to the server log, and whether it
\* drew a random token.  resetToken is the value randomBytes returns if asked,
\* salt the value genSalt returns if asked.

GenericForgotMessage ==
    "If an account with that email exists, a password reset link has been sent."

\* The answer when no account has the email.
ForgotNotFoundBody == [success |-> TRUE, message |-> GenericForgotMessage]

\* Mutant: an inactive account is told so.
ForgotInactiveBody_Reveals == [success |-> TRUE, message |-> "This account is inactive."]

\* The answer when the account is inactive.
ForgotInactiveBody == [success |-> TRUE, message |-> GenericForgotMessage]

\* Mutant: the token is returned whatever the environment.
ForgotIssuedBody_Always(resetToken, env) ==
    [success |-> TRUE, message |-> GenericForgotMessage, resetToken |-> resetToken]

\* The answer after a token was stored; JSON drops an undefined resetToken.
ForgotIssuedBody(resetToken, env) ==
    IF env = "development"
    THEN [success |-> TRUE, message |-> GenericForgotMessage, resetToken |-> resetToken]
    ELSE [success |-> TRUE, message |-> GenericForgotMessage]

\* Mutant: the isActive check is missing.
ForgotPasswordPOST_IgnoresInactive(db, t, email, resetToken, env, salt, fault) ==
    IF fault = "connect"
    THEN [db |-> db, status |-> 500, logged |-> {}, drew |-> FALSE,
          body |-> [success |-> FALSE, error |-> "Failed to process forgot password request"]]
    ELSE IF email = ""
    THEN [db |-> db, status |-> 400, logged |-> {}, drew |-> FALSE,
          body |-> [success |-> FALSE, error |-> "Email is required"]]
    ELSE LET id == ByEmail(db, ToLower(email)) IN
         IF id = 0
         THEN [db |-> db, status |-> 200, logged |-> {}, drew |-> FALSE,
               body |-> ForgotNotFoundBody]
         ELSE LET user == generatePasswordResetToken(Hydrate(db[id]), resetToken, t)
                  saved == Save(db, id, user, salt, fault)
              IN IF ~saved.ok
                 THEN [db |-> saved.db, status |-> 500, logged |-> {}, drew |-> TRUE,
                       body |-> [success |-> FALSE,
                                 error |-> "Failed to process forgot password request"]]
                 ELSE [db |-> saved.db, status |-> 200, logged |-> {resetToken}, drew |-> TRUE,
                       body |-> ForgotIssuedBody(resetToken, env)]

ForgotPasswordPOST(db, t, email, resetToken, env, salt, fault) ==
    IF fault = "connect"
    THEN [db |-> db, status |-> 500, logged |-> {}, drew |-> FALSE,
          body |-> [success |-> FALSE, error |-> "Failed to process forgot password request"]]
    ELSE IF email = ""
    THEN [db |-> db, status |-> 400, logged |-> {}, drew |-> FALSE,
          body |-> [success |-> FALSE, error |-> "Email is required"]]
    ELSE LET id == ByEmail(db, ToLower(email)) IN
         IF id = 0
         THEN [db |-> db, status |-> 200, logged |-> {}, drew |-> FALSE,
               body |-> ForgotNotFoundBody]
         ELSE IF ~db[id].isActive
         THEN [db |-> db, status |-> 200, logged |-> {}, drew |-> FALSE,
               body |-> ForgotInactiveBody]
         ELSE LET user == generatePasswordResetToken(Hydrate(db[id]), resetToken, t)
                  saved == Save(db, id, user, salt, fault)
              IN IF ~saved.ok
                 THEN [db |-> saved.db, status |-> 500, logged |-> {}, drew |-> TRUE,
                       body |-> [success |-> FALSE,
                                 error |-> "Failed to process forgot password request"]]
                 ELSE [db |-> saved.db, status |-> 200, logged |-> {resetToken}, drew |-> TRUE,
                       body |-> ForgotIssuedBody(resetToken, env)]

---------------------------------------------------------------------------
\* POST /api/auth/reset-password (src/app/api/auth/reset-password/route.ts).

ResetError(error) == [success |-> FALSE, error |-> error]

InvalidTokenError == "Invalid or expired reset token"

\* Mutant: the token is looked up before the passwords are compared and
\* measured.
ResetPasswordPOST_LookupFirst(db, t, token, password, confirmPassword, salt, fault) ==
    IF fault = "connect"
    THEN [db |-> db, status |-> 500, queried |-> FALSE,
          body |-> ResetError("Failed to reset password")]
    ELSE IF token = "" \/ password = "" \/ confirmPassword = ""
    THEN [db |-> db, status |-> 400, queried |-> FALSE,
          body |-> ResetError("Token, password, and confirm password are required")]
    ELSE LET id == ByValidResetToken(db, Sha256(token), t) IN
         IF id = 0
         THEN [db |-> db, status |-> 400, queried |-> TRUE,
               body |-> ResetError(InvalidTokenError)]
         ELSE IF password # confirmPassword
         THEN [db |-> db, status |-> 400, queried |-> TRUE,
               body |-> ResetError("Passwords do not match")]
         ELSE IF Len(password) < MinPasswordLen
         THEN [db |-> db, status |-> 400, queried |-> TRUE,
               body |-> ResetError("Password must be at least 6 characters long")]
         ELSE LET u1 == SetPath(Hydrate(db[id]), "password", password)
                  u2 == SetPath(u1, "isFirstLogin", FALSE)
                  u3 == clearPasswordResetToken(u2)
                  u4 == SetPath(u3, "lastLoginAt", t)
                  saved == Save(db, id, u4, salt, fault)
              IN IF ~saved.ok
                 THEN [db |-> saved.db, status |-> 500, queried |-> TRUE,
                       body |-> ResetError("Failed to reset password")]
                 ELSE [db |-> saved.db, status |-> 200, queried |-> TRUE,
                       body |-> [success |-> TRUE,
                                 message |-> "Password has been reset successfully"]]

\* Mutant: a form whose two passwords differ is let through to the lookup.
ResetPasswordPOST_NoMismatchCheck(db, t, token, password, confirmPassword, salt, fault) ==
    IF fault = "connect"
    THEN [db |-> db, status |-> 500, queried |-> FALSE,
          body |-> ResetError("Failed to reset password")]
    ELSE IF token = "" \/ password = "" \/ confirmPassword = ""
    THEN [db |-> db, status |-> 400, queried |-> FALSE,
          body |-> ResetError("Token, password, and confirm password are required")]
    ELSE IF Len(password) < MinPasswordLen
    THEN [db |-> db, status |-> 400, queried |-> FALSE,
          body |-> ResetError("Password must be at least 6 characters long")]
    ELSE LET id == ByValidResetToken(db, Sha256(token), t) IN
         IF id = 0
         THEN [db |-> db, status |-> 400, queried |-> TRUE,
               body |-> ResetError(InvalidTokenError)]
         ELSE LET u1 == SetPath(Hydrate(db[id]), "password", password)
                  u2 == SetPath(u1, "isFirstLogin", FALSE)
                  u3 == clearPasswordResetToken(u2)
                  u4 == SetPath(u3, "lastLoginAt", t)
                  saved == Save(db, id, u4, salt, fault)
              IN IF ~saved.ok
                 THEN [db |-> saved.db, status |-> 500, queried |-> TRUE,
                       body |-> ResetError("Failed to reset password")]
                 ELSE [db |-> saved.db, status |-> 200, queried |-> TRUE,
                       body |-> [success |-> TRUE,
                                 message |-> "Password has been reset successfully"]]

\* queried: whether User.findOne ran.
ResetPasswordPOST(db, t, token, password, confirmPassword, salt, fault) ==
    IF fault = "connect"
    THEN [db |-> db, status |-> 500, queried |-> FALSE,
          body |-> ResetError("Failed to reset password")]
    ELSE IF token = "" \/ password = "" \/ confirmPassword = ""
    THEN [db |-> db, status |-> 400, queried |-> FALSE,
          body |-> ResetError("Token, password, and confirm password are required")]
    ELSE IF password # confirmPassword
    THEN [db |-> db, status |-> 400, queried |-> FALSE,
          body |-> ResetError("Passwords do not match")]
    ELSE IF Len(password) < MinPasswordLen
    THEN [db |-> db, status |-> 400, queried |-> FALSE,
          body |-> ResetError("Password must be at least 6 characters long")]
    ELSE LET hashedToken == Sha256(token)
             id == ByValidResetToken(db, hashedToken, t)
         IN IF id = 0
            THEN [db |-> db, status |-> 400, queried |-> TRUE,
                  body |-> ResetError(InvalidTokenError)]
            ELSE LET u1 == SetPath(Hydrate(db[id]), "password", password)
                     u2 == SetPath(u1, "isFirstLogin", FALSE)
                     u3 == clearPasswordResetToken(u2)
                     u4 == SetPath(u3, "lastLoginAt", t)
                     saved == Save(db, id, u4, salt, fault)
                 IN IF ~saved.ok
                    THEN [db |-> saved.db, status |-> 500, queried |-> TRUE,
                          body |-> ResetError("Failed to reset password")]
                    ELSE [db |-> saved.db, status |-> 200, queried |-> TRUE,
                          body |-> [success |-> TRUE,
                                    message |-> "Password has been reset successfully"]]

---------------------------------------------------------------------------
\* POST /api/auth/login.  The route is not among the sources; this is the
\* authenticate operation as the specification describes it (section 4.3),
\* on the User model's methods.

BearerFor(d) == "bearer:" \o d.email

LoginFailedBody == [success |-> FALSE, error |-> "Invalid email or password"]

LoginPOST(db, t, email, password, resetToken, salt, fault) ==
    IF fault = "connect"
    THEN [db |-> db, status |-> 500, drew |-> FALSE,
          body |-> [success |-> FALSE, error |-> "Login failed"]]
    ELSE LET id == ByEmail(db, ToLower(email)) IN
         IF id = 0 \/ ~db[id].isActive \/ ~comparePassword(db[id], password)
         THEN [db |-> db, status |-> 401, drew |-> FALSE, body |-> LoginFailedBody]
         ELSE LET user == IF db[id].isFirstLogin
                          THEN generatePasswordResetToken(Hydrate(db[id]), resetToken, t)
                          ELSE SetPath(Hydrate(db[id]), "lastLoginAt", t)
                  saved == Save(db, id, user, salt, fault)
              IN IF ~saved.ok
                 THEN [db |-> saved.db, status |-> 500, drew |-> db[id].isFirstLogin,
                       body |-> [success |-> FALSE, error |-> "Login failed"]]
                 ELSE IF db[id].isFirstLogin
                 THEN [db |-> saved.db, status |-> 200, drew |-> TRUE,
                       body |-> [success |-> TRUE, requiresPasswordReset |-> TRUE,
                                 resetToken |-> resetToken]]
                 ELSE [db |-> saved.db, status |-> 200, drew |-> FALSE,
                       body |-> [success |-> TRUE,
                                 data |-> [token |-> BearerFor(db[id])]]]

\* Mutant: a reset requirement is stored like a session, with its reset token.
HandleSubmitAuthToken_StoresResetToken(stored, status, body) ==
    IF status \in 200..299 /\ body.success
    THEN IF "requiresPasswordReset" \in DOMAIN body /\ body.requiresPasswordReset
         THEN body.resetToken
         ELSE body.data.token
    ELSE stored

\* The login page's handleSubmit (src/app/login/page.tsx), from the response
\* on: the value of localStorage 'auth-token' afterwards.  axios rejects on a
\* status outside 2xx, which lands in the catch block.
HandleSubmitAuthToken(stored, status, body) ==
    IF status \in 200..299 /\ body.success
    THEN IF "requiresPasswordReset" \in DOMAIN body /\ body.requiresPasswordReset
         THEN stored
         ELSE body.data.token
    ELSE stored

\* A page of the browser: its path, the token query parameter, and the reset
\* page's success flag.
Page(path, token, success) == [path |-> path, token |-> token, success |-> success]

\* Mutant: a reset requirement is taken for a session.
HandleSubmitRoute_SkipsReset(current, status, body) ==
    IF status \in 200..299 /\ body.success
    THEN Page("/dashboard", "", FALSE)
    ELSE current

\* The login page's handleSubmit, from the response on: where router.push
\* leads.
HandleSubmitRoute(current, status, body) ==
    IF status \in 200..299 /\ body.success
    THEN IF "requiresPasswordReset" \in DOMAIN body /\ body.requiresPasswordReset
         THEN Page("/reset-password", body.resetToken, FALSE)
         ELSE Page("/dashboard", "", FALSE)
    ELSE current

\* ResetPasswordPage.handleSubmit before the request: the checks that keep
\* the form from being sent.
ResetPageSends(password, confirmPassword) ==
    /\ password # "" /\ confirmPassword # ""
    /\ password = confirmPassword
    /\ Len(password) >= 6

\* ResetPasswordPage.handleSubmit, from the response on: setSuccess(true) on
\* success, the error otherwise; nothing is written to localStorage.
ResetPageAfterSubmit(current, status, body) ==
    IF status \in 200..299 /\ body.success
    THEN [current EXCEPT !.success = TRUE]
    ELSE current

\* The login page's handleForgotPassword, from the response on: the message it
\* shows on success.
HandleForgotPasswordMessage(body) ==
    IF "resetToken" \in DOMAIN body /\ body.resetToken # ""
    THEN body.message \o " (Development: Reset link: /reset-password?token="
                      \o body.resetToken \o ")"
    ELSE body.message

---------------------------------------------------------------------------
\* TestExecutionForm (src/components/TestExecutionForm.tsx).  The component's
\* state is a record; a handler is an operator from the state to the state
\* after it.  A call awaited by a handler stays in flight (fetches, saving)
\* until a later step resolves or rejects it.

\* The tasks the task context holds, and the tags of a task, as the task
\* list has them and as the server returns them.
TaskIds == {"t1", "t2"}
TagsOfTask(taskId) == IF taskId = "t1" THEN <<"ui">> ELSE <<"api", "ui">>

\* String.prototype.trim, on spaces.
RECURSIVE TrimStart(_)
TrimStart(str) ==
    IF str # "" /\ SubSeq(str, 1, 1) = " " THEN TrimStart(SubSeq(str, 2, Len(str))) ELSE str
RECURSIVE TrimEnd(_)
TrimEnd(str) ==
    IF str # "" /\ SubSeq(str, Len(str), Len(str)) = " "
    THEN TrimEnd(SubSeq(str, 1, Len(str) - 1)) ELSE str
Trim(str) == TrimEnd(TrimStart(str))

\* The state after mount.  edit: an editTestExecution was passed, whose task
\* is editTaskId ("" when the record's taskId has no _id); userName: the name
\* of the authenticated user, "" for none.  The counters record what the
\* component has called.
NewForm(edit, editTaskId, userName) ==
    [taskId |-> IF edit THEN editTaskId ELSE "",
     status |-> IF edit THEN "pass" ELSE "fail",
     feedback |-> IF edit THEN "ok" ELSE "",
     attachedImages |-> <<>>,
     selectedTask |-> IF edit /\ editTaskId = "" THEN "t1" ELSE "",
     taskTags |-> IF edit /\ editTaskId = "" THEN TagsOfTask("t1") ELSE <<>>,
     selectedTags |-> IF edit /\ editTaskId = "" THEN TagsOfTask("t1") ELSE <<>>,
     errors |-> {},
     edit |-> edit, userName |-> userName,
     fetches |-> <<>>, saving |-> <<>>,
     selections |-> 0, touched |-> FALSE,
     calls |-> 0, succeeded |-> 0, failed |-> 0, onSuccess |-> 0]

\* handleTaskSelect up to its await: a task of the list is selected and its
\* tags are asked for; an id the list does not hold changes nothing.
HandleTaskSelect(f, taskId) ==
    IF taskId \notin TaskIds THEN f
    ELSE [f EXCEPT !.selectedTask = taskId, !.taskId = taskId,
                   !.fetches = Append(f.fetches, taskId),
                   !.selections = f.selections + 1]

\* The sequence without its k-th element.
Without(q, k) == SubSeq(q, 1, k - 1) \o SubSeq(q, k + 1, Len(q))

\* handleTaskSelect after its await, getTagsByTaskId resolved: the k-th call
\* in flight sets the tags of the task it was made for.
TagsFetched(f, k) ==
    [f EXCEPT !.taskTags = TagsOfTask(f.fetches[k]),
              !.selectedTags = TagsOfTask(f.fetches[k]),
              !.touched = FALSE,
              !.fetches = Without(f.fetches, k)]

\* The same with getTagsByTaskId rejected: the catch block falls back on
\* task.tags of the task the call was made for.
TagsFetchFailed(f, k) ==
    [f EXCEPT !.taskTags = TagsOfTask(f.fetches[k]),
              !.selectedTags = TagsOfTask(f.fetches[k]),
              !.touched = FALSE,
              !.fetches = Without(f.fetches, k)]

\* handleInputChange on the feedback field: the value, and its error cleared.
HandleInputChange(f, value) ==
    [f EXCEPT !.feedback = value, !.errors = f.errors \ {"feedback"}]

HandleStatusChange(f, status) == [f EXCEPT !.status = status]

HandleImagesChange(f, images) == [f EXCEPT !.attachedImages = images]

HandleTagsChange(f, tags) == [f EXCEPT !.selectedTags = tags, !.touched = TRUE]

\* Mutant: the feedback is not trimmed before it is tested.
ValidateForm_NoTrim(f) ==
    (IF f.taskId = "" THEN {"taskId"} ELSE {})
      \cup (IF f.feedback = "" THEN {"feedback"} ELSE {})
      \cup (IF f.userName = "" THEN {"user"} ELSE {})

\* validateForm: the keys of newErrors.
ValidateForm(f) ==
    (IF f.taskId = "" THEN {"taskId"} ELSE {})
      \cup (IF Trim(f.feedback) = "" THEN {"feedback"} ELSE {})
      \cup (IF f.userName = "" THEN {"user"} ELSE {})

\* What handleSubmit hands to createTestExecution / updateTestExecution.
TestExecutionData(f) ==
    [taskId |-> f.taskId, status |-> f.status, feedback |-> Trim(f.feedback),
     attachedImages |-> f.attachedImages, testerName |-> f.userName,
     passed |-> (f.status = "pass"), notes |-> f.feedback, update |-> f.edit]

\* handleSubmit up to its await: validation, then the call.
HandleSubmit(f) ==
    IF ValidateForm(f) # {} THEN [f EXCEPT !.errors = ValidateForm(f)]
    ELSE [f EXCEPT !.errors = {},
                   !.saving = Append(f.saving, TestExecutionData(f)),
                   !.calls = f.calls + 1]

\* handleSubmit after its await, the call resolved: the form is reset when
\* creating, onSuccess is invoked.
SaveSucceeded(f) ==
    LET g == [f EXCEPT !.saving = Tail(f.saving),
                       !.succeeded = f.succeeded + 1,
                       !.onSuccess = f.onSuccess + 1]
    IN IF f.edit THEN g
       ELSE [g EXCEPT !.taskId = "", !.status = "fail", !.feedback = "",
                      !.attachedImages = <<>>, !.selectedTask = "",
                      !.taskTags = <<>>, !.selectedTags = <<>>]

\* The same with the call rejected: the catch block logs.
SaveFailed(f) ==
    [f EXCEPT !.saving = Tail(f.saving), !.failed = f.failed + 1]

---------------------------------------------------------------------------
\* TagContext (src/context/TagContext.tsx).

Null == "null"

initialState == [tags |-> <<>>, allTags |-> <<>>, loading |-> FALSE, error |-> Null]

\* Mutant: SET_ERROR leaves loading as it is.
tagReducer_ErrorKeepsLoading(state, action) ==
    CASE action.type = "SET_LOADING" -> [state EXCEPT !.loading = action.payload]
      [] action.type = "SET_ERROR" -> [state EXCEPT !.error = action.payload]
      [] action.type = "SET_TAGS" ->
            [state EXCEPT !.tags = action.payload, !.loading = FALSE, !.error = Null]
      [] action.type = "SET_ALL_TAGS" ->
            [state EXCEPT !.allTags = action.payload, !.loading = FALSE, !.error = Null]
      [] action.type = "ADD_TAG" ->
            [state EXCEPT !.tags = Append(state.tags, action.payload),
                          !.loading = FALSE, !.error = Null]
      [] OTHER -> state

tagReducer(state, action) ==
    CASE action.type = "SET_LOADING" -> [state EXCEPT !.loading = action.payload]
      [] action.type = "SET_ERROR" ->
            [state EXCEPT !.error = action.payload, !.loading = FALSE]
      [] action.type = "SET_TAGS" ->
            [state EXCEPT !.tags = action.payload, !.loading = FALSE, !.error = Null]
      [] action.type = "SET_ALL_TAGS" ->
            [state EXCEPT !.allTags = action.payload, !.loading = FALSE, !.error = Null]
      [] action.type = "ADD_TAG" ->
            [state EXCEPT !.tags = Append(state.tags, action.payload),
                          !.loading = FALSE, !.error = Null]
      [] OTHER -> state

\* The two dispatches every run begins with.
RunBegins(state) ==
    tagReducer(tagReducer(state, [type |-> "SET_LOADING", payload |-> TRUE]),
               [type |-> "SET_ERROR", payload |-> Null])

\* The action a run dispatches when the response has success: true.
SuccessAction(kind, data) ==
    [type |-> CASE kind = "getTags" -> "SET_TAGS"
                [] kind = "getAllTags" -> "SET_ALL_TAGS"
                [] OTHER -> "ADD_TAG",
     payload |-> data]

\* How a run fails, and the message its catch block computes: an answer
\* with an error body, no answer, or an answer with success: false (whose
\* Error is not an axios error).
Failures == {"response", "network", "unsuccessful"}
ErrorMessage(failure) ==
    CASE failure = "response" -> "Tag already exists"
      [] failure = "network" -> "Network Error"
      [] OTHER -> "An unexpected error occurred"

\* The provider after mount: the reducer's state, the runs in flight, and a
\* record of what has ended.
NewTagProvider ==
    [state |-> initialState, runs |-> <<>>, started |-> 0, succeeded |-> 0, failed |-> 0,
     last |-> [kind |-> "", data |-> <<>>]]

---------------------------------------------------------------------------
\* Provisioning and administration are outside the sources: an account is
\* created by saving a new document (which runs the pre-save hook), and an
\* administrator flips isActive.

AllPaths == {"name", "email", "password", "isActive", "isFirstLogin",
             "resetPasswordToken", "resetPasswordExpires", "lastLoginAt"}

CreateUserResult(db, name, email, password, salt, fault) ==
    IF \/ Len(password) < MinPasswordLen
       \/ ByEmail(db, ToLower(email)) # 0
       \/ fault \in {"connect", "save"}
    THEN db
    ELSE LET h == preSave([doc |-> NewUserDoc(name, email, password),
                           modified |-> AllPaths], salt, fault)
         IN IF h = PreSaveHashError THEN db ELSE Append(db, h.doc)

---------------------------------------------------------------------------
\* The state machine.

\* What the requests of the model carry.
TokenInputs == {RandomHex[i] : i \in 1..nextRandom} \cup {"bogus", ""}
ResetForms == {<<"hunter2x", "hunter2x">>,
               <<Secret72 \o "x", Secret72 \o "x">>,
               <<"newpass1", "hunter2x">>, <<"short", "short">>, <<"newpass1", "">>}
LoginSecretInputs == Secrets \cup {s \o "x" : s \in Secrets}
LoginEmails == {"AL@X.io", "bo@x.io", "cy@x.io"}
CreateEmails == {"al@x.io", "AL@X.io", "bo@x.io"}

\* The value crypto.randomBytes returns next.
NextToken == RandomHex[nextRandom + 1]

\* The plaintext tokens whose hash some account of db stores.
StoredTokens(db) ==
    {tok \in {RandomHex[i] : i \in 1..Len(RandomHex)} :
        \E i \in 1..Len(db) : db[i].resetPasswordToken = Sha256(tok)}

Init ==
    /\ users = <<>>
    /\ now = 0
    /\ nextRandom = 0
    /\ authToken = Undefined
    /\ consumed = {}
    /\ superseded = {}
    /\ reqs = <<>>
    /\ route = Page("/login", "", FALSE)
    /\ testForm = NewForm(FALSE, "", "Ann")
    /\ tagCtx = NewTagProvider

CreateUser ==
    \E email \in CreateEmails, password \in Secrets \cup {"short"},
       salt \in Salts, fault \in Faults :
        /\ Len(users) < MaxUsers
        /\ users' = CreateUserResult(users, "Alice", email, password, salt, fault)
        /\ UNCHANGED <<now, nextRandom, authToken, consumed, superseded, reqs, route, testForm, tagCtx>>

SetActive ==
    \E id \in 1..Len(users), active \in BOOLEAN :
        /\ users' = [users EXCEPT ![id].isActive = active]
        /\ UNCHANGED <<now, nextRandom, authToken, consumed, superseded, reqs, route, testForm, tagCtx>>

ForgotPassword ==
    \E email \in EmailInputs, env \in Envs, fault \in Faults :
      \E r \in {ForgotPasswordPOST(users, now, email, NextToken, env, "s1", fault)} :
        /\ r.drew => nextRandom < MaxTokens
        /\ users' = r.db
        /\ nextRandom' = IF r.drew THEN nextRandom + 1 ELSE nextRandom
        /\ superseded' = superseded \cup (StoredTokens(users) \ StoredTokens(r.db))
        /\ UNCHANGED <<now, authToken, consumed, reqs, route, testForm, tagCtx>>

ResetPassword ==
    \E token \in TokenInputs, form \in ResetForms, salt \in Salts, fault \in Faults :
      \E r \in {ResetPasswordPOST(users, now, token, form[1], form[2], salt, fault)} :
        /\ users' = r.db
        /\ consumed' = IF r.status = 200 THEN consumed \cup {token} ELSE consumed
        /\ UNCHANGED <<now, nextRandom, authToken, superseded, reqs, route, testForm, tagCtx>>

Login ==
    \E email \in LoginEmails, password \in LoginSecretInputs, fault \in Faults :
      \E r \in {LoginPOST(users, now, email, password, NextToken, "s1", fault)} :
        /\ r.drew => nextRandom < MaxTokens
        /\ users' = r.db
        /\ nextRandom' = IF r.drew THEN nextRandom + 1 ELSE nextRandom
        /\ authToken' = HandleSubmitAuthToken(authToken, r.status, r.body)
        /\ superseded' = superseded \cup (StoredTokens(users) \ StoredTokens(r.db))
        /\ UNCHANGED <<now, consumed, reqs, route, testForm, tagCtx>>

Tick ==
    /\ \E t \in Instants : t > now /\ now' = t
    /\ UNCHANGED <<users, nextRandom, authToken, consumed, superseded, reqs, route, testForm, tagCtx>>

Next ==
    \/ CreateUser
    \/ SetActive
    \/ ForgotPassword
    \/ ResetPassword
    \/ Login
    \/ Tick

Spec == Init /\ [][Next]_vars

---------------------------------------------------------------------------
\* Requests in flight together.  The routes take no lock: each request awaits
\* User.findOne, works on the document it got, and awaits save(); another
\* request's steps and the clock can come in between.  A request is a record
\* holding its input, where it stands, and the document it loaded.

NumRequests == 2

\* The placeholder for "no document loaded yet".
NoDoc == Hydrate(NewUserDoc("", "", ""))

NewRequest(kind, token, password, email) ==
    [kind |-> kind, token |-> token, password |-> password, email |-> email,
     pc |-> "start", id |-> 0, m |-> NoDoc, status |-> 0, issued |-> "", order |-> 0]

\* What the requests in flight carry: resets presenting the first token
\* drawn, and forgot requests for the account.
RequestInputs ==
    {NewRequest("reset", RandomHex[1], "hunter2x", ""),
     NewRequest("reset", RandomHex[1], "newpass1", ""),
     NewRequest("forgot", "", "", "AL@X.io")}

\* The account the requests are about, as creation stored it, and the
\* collection after a token was issued for it at time 0.
RaceAccount ==
    CreateUserResult(<<>>, "Alice", "al@x.io", "hunter2x", "s1", "none")
RaceAccountWithToken ==
    ForgotPasswordPOST(RaceAccount, 0, "al@x.io", RandomHex[1], "production", "s1", "none").db

\* The number of saves that have been written.
SavesDone == Cardinality({i \in 1..Len(reqs) : reqs[i].order > 0})

RaceInit ==
    /\ \E outstanding \in BOOLEAN :
          /\ users = IF outstanding THEN RaceAccountWithToken ELSE RaceAccount
          /\ nextRandom = IF outstanding THEN 1 ELSE 0
    /\ now = 0
    /\ authToken = Undefined
    /\ consumed = {}
    /\ superseded = {}
    /\ reqs \in [1..NumRequests -> RequestInputs]
    /\ route = Page("/login", "", FALSE)
    /\ testForm = NewForm(FALSE, "", "Ann")
    /\ tagCtx = NewTagProvider

\* POST /reset-password up to the answer of findOne: validation, the hash of
\* the token, the query.
ResetFind(i) ==
    /\ reqs[i].kind = "reset" /\ reqs[i].pc = "start"
    /\ LET q == reqs[i]
           id == ByValidResetToken(users, Sha256(q.token), now)
       IN reqs' = [reqs EXCEPT ![i] =
                     IF q.token = "" \/ q.password = "" \/ Len(q.password) < MinPasswordLen
                     THEN [q EXCEPT !.pc = "done", !.status = 400]
                     ELSE IF id = 0
                     THEN [q EXCEPT !.pc = "done", !.status = 400]
                     ELSE [q EXCEPT !.pc = "loaded", !.id = id, !.m = Hydrate(users[id])]]
    /\ UNCHANGED <<users, now, nextRandom, authToken, consumed, superseded, route, testForm, tagCtx>>

\* The four assignments on the loaded document; lastLoginAt reads the clock.
ResetAssign(i) ==
    /\ reqs[i].kind = "reset" /\ reqs[i].pc = "loaded"
    /\ LET u1 == SetPath(reqs[i].m, "password", reqs[i].password)
           u2 == SetPath(u1, "isFirstLogin", FALSE)
           u3 == clearPasswordResetToken(u2)
           u4 == SetPath(u3, "lastLoginAt", now)
       IN reqs' = [reqs EXCEPT ![i].m = u4, ![i].pc = "ready"]
    /\ UNCHANGED <<users, now, nextRandom, authToken, consumed, superseded, route, testForm, tagCtx>>

\* await user.save() and the answer.
ResetSave(i) ==
    /\ reqs[i].kind = "reset" /\ reqs[i].pc = "ready"
    /\ \E fault \in {"none", "save"} :
         \E saved \in {Save(users, reqs[i].id, reqs[i].m, "s1", fault)} :
           /\ users' = saved.db
           /\ reqs' = [reqs EXCEPT ![i].pc = "done",
                                   ![i].status = IF saved.ok THEN 200 ELSE 500,
                                   ![i].order = IF saved.ok THEN SavesDone + 1 ELSE 0]
           /\ consumed' = IF saved.ok THEN consumed \cup {reqs[i].token} ELSE consumed
    /\ UNCHANGED <<now, nextRandom, authToken, superseded, route, testForm, tagCtx>>

\* POST /forgot-password up to the answer of findOne and the isActive check.
ForgotFind(i) ==
    /\ reqs[i].kind = "forgot" /\ reqs[i].pc = "start"
    /\ LET q == reqs[i]
           id == ByEmail(users, ToLower(q.email))
       IN reqs' = [reqs EXCEPT ![i] =
                     IF q.email = ""
                     THEN [q EXCEPT !.pc = "done", !.status = 400]
                     ELSE IF id = 0 \/ ~users[id].isActive
                     THEN [q EXCEPT !.pc = "done", !.status = 200]
                     ELSE [q EXCEPT !.pc = "loaded", !.id = id, !.m = Hydrate(users[id])]]
    /\ UNCHANGED <<users, now, nextRandom, authToken, consumed, superseded, route, testForm, tagCtx>>

\* user.generatePasswordResetToken() on the loaded document.
ForgotGenerate(i) ==
    /\ reqs[i].kind = "forgot" /\ reqs[i].pc = "loaded"
    /\ nextRandom < Len(RandomHex)
    /\ reqs' = [reqs EXCEPT ![i].m = generatePasswordResetToken(reqs[i].m, NextToken, now),
                            ![i].issued = NextToken,
                            ![i].pc = "ready"]
    /\ nextRandom' = nextRandom + 1
    /\ UNCHANGED <<users, now, authToken, consumed, superseded, route, testForm, tagCtx>>

\* await user.save() and the answer.
ForgotSave(i) ==
    /\ reqs[i].kind = "forgot" /\ reqs[i].pc = "ready"
    /\ \E fault \in {"none", "save"} :
         \E saved \in {Save(users, reqs[i].id, reqs[i].m, "s1", fault)} :
           /\ users' = saved.db
           /\ reqs' = [reqs EXCEPT ![i].pc = "done",
                                   ![i].status = IF saved.ok THEN 200 ELSE 500,
                                   ![i].order = IF saved.ok THEN SavesDone + 1 ELSE 0]
           /\ superseded' = superseded \cup (StoredTokens(users) \ StoredTokens(saved.db))
    /\ UNCHANGED <<now, nextRandom, authToken, consumed, route, testForm, tagCtx>>

RaceNext ==
    \/ \E i \in 1..NumRequests : ResetFind(i)
    \/ \E i \in 1..NumRequests : ResetAssign(i)
    \/ \E i \in 1..NumRequests : ResetSave(i)
    \/ \E i \in 1..NumRequests : ForgotFind(i)
    \/ \E i \in 1..NumRequests : ForgotGenerate(i)
    \/ \E i \in 1..NumRequests : ForgotSave(i)
    \/ Tick

RaceSpec == RaceInit /\ [][RaceNext]_vars

---------------------------------------------------------------------------
\* One browser against the routes: the login page (sign in, forgot password),
\* the reset page, the dashboard.

\* A second account, and the collections a browser session starts against.
ClientAccounts ==
    CreateUserResult(RaceAccount, "Bob", "bo@x.io", Secret72, "s1", "none")

ClientInit ==
    /\ users \in {RaceAccount, ClientAccounts}
    /\ now = 0
    /\ nextRandom = 0
    /\ authToken = Undefined
    /\ consumed = {}
    /\ superseded = {}
    /\ reqs = <<>>
    /\ route = Page("/login", "", FALSE)
    /\ testForm = NewForm(FALSE, "", "Ann")
    /\ tagCtx = NewTagProvider

\* The login form submitted with both fields filled in.
LoginSubmit ==
    /\ route.path = "/login"
    /\ \E email \in LoginEmails, password \in LoginSecretInputs, fault \in Faults :
         \E r \in {LoginPOST(users, now, email, password, NextToken, "s1", fault)} :
           /\ r.drew => nextRandom < MaxTokens
           /\ users' = r.db
           /\ nextRandom' = IF r.drew THEN nextRandom + 1 ELSE nextRandom
           /\ authToken' = HandleSubmitAuthToken(authToken, r.status, r.body)
           /\ route' = HandleSubmitRoute(route, r.status, r.body)
           /\ superseded' = superseded \cup (StoredTokens(users) \ StoredTokens(r.db))
    /\ UNCHANGED <<now, consumed, reqs, testForm, tagCtx>>

\* The forgot-password form of the login page.
LoginForgot ==
    /\ route.path = "/login"
    /\ \E email \in EmailInputs \ {""}, env \in Envs, fault \in Faults :
         \E r \in {ForgotPasswordPOST(users, now, email, NextToken, env, "s1", fault)} :
           /\ r.drew => nextRandom < MaxTokens
           /\ users' = r.db
           /\ nextRandom' = IF r.drew THEN nextRandom + 1 ELSE nextRandom
           /\ superseded' = superseded \cup (StoredTokens(users) \ StoredTokens(r.db))
    /\ UNCHANGED <<now, authToken, consumed, reqs, route, testForm, tagCtx>>

\* The user follows a reset link.
OpenResetLink ==
    /\ route.path = "/login"
    /\ \E token \in TokenInputs \ {""} : route' = Page("/reset-password", token, FALSE)
    /\ UNCHANGED <<users, now, nextRandom, authToken, consumed, superseded, reqs, testForm, tagCtx>>

\* The reset form submitted; a form the page's own checks refuse is not sent.
ResetSubmit ==
    /\ route.path = "/reset-password" /\ ~route.success
    /\ \E form \in ResetForms, fault \in Faults :
         /\ ResetPageSends(form[1], form[2])
         /\ \E r \in {ResetPasswordPOST(users, now, route.token, form[1], form[2], "s1", fault)} :
              /\ users' = r.db
              /\ consumed' = IF r.status = 200 THEN consumed \cup {route.token} ELSE consumed
              /\ route' = ResetPageAfterSubmit(route, r.status, r.body)
    /\ UNCHANGED <<now, nextRandom, authToken, superseded, reqs, testForm, tagCtx>>

\* The success screen's timer, or its "Go to Login" button.
ResetRedirect ==
    /\ route.path = "/reset-password" /\ route.success
    /\ route' = Page("/login", "", FALSE)
    /\ UNCHANGED <<users, now, nextRandom, authToken, consumed, superseded, reqs, testForm, tagCtx>>

ClientNext ==
    \/ LoginSubmit
    \/ LoginForgot
    \/ OpenResetLink
    \/ ResetSubmit
    \/ ResetRedirect
    \/ Tick

ClientSpec == ClientInit /\ [][ClientNext]_vars

---------------------------------------------------------------------------
\* A mounted TestExecutionForm and its user.

MaxSelections == 2
MaxSubmits == 2

FeedbackInputs == {"", "  ", " ok "}
ImageInputs == {<<>>, <<"a.png">>}

\* What the form leaves alone.
authVars == <<users, now, nextRandom, authToken, consumed, superseded, reqs, route, tagCtx>>

FormInit ==
    /\ users = <<>>
    /\ now = 0
    /\ nextRandom = 0
    /\ authToken = Undefined
    /\ consumed = {}
    /\ superseded = {}
    /\ reqs = <<>>
    /\ route = Page("/dashboard", "", FALSE)
    /\ \E edit \in BOOLEAN, editTaskId \in {"", "t1"}, userName \in {"", "Ann"} :
          /\ ~edit => editTaskId = ""
          /\ testForm = NewForm(edit, editTaskId, userName)
    /\ tagCtx = NewTagProvider

\* The task select, disabled when editing.
TaskSelect ==
    /\ ~testForm.edit
    /\ testForm.selections < MaxSelections
    /\ \E taskId \in TaskIds \cup {"t9"} : testForm' = HandleTaskSelect(testForm, taskId)
    /\ UNCHANGED authVars

TagsResolve ==
    /\ \E k \in 1..Len(testForm.fetches) : testForm' = TagsFetched(testForm, k)
    /\ UNCHANGED authVars

TagsReject ==
    /\ \E k \in 1..Len(testForm.fetches) : testForm' = TagsFetchFailed(testForm, k)
    /\ UNCHANGED authVars

InputChange ==
    /\ \E value \in FeedbackInputs : testForm' = HandleInputChange(testForm, value)
    /\ UNCHANGED authVars

StatusChange ==
    /\ \E status \in {"pass", "fail"} : testForm' = HandleStatusChange(testForm, status)
    /\ UNCHANGED authVars

ImagesChange ==
    /\ \E images \in ImageInputs : testForm' = HandleImagesChange(testForm, images)
    /\ UNCHANGED authVars

TagsChange ==
    /\ testForm.selectedTask # ""
    /\ \E tags \in {<<>>, <<"ui">>} : testForm' = HandleTagsChange(testForm, tags)
    /\ UNCHANGED authVars

\* The submit button, disabled while a save is running.
Submit ==
    /\ testForm.saving = <<>>
    /\ testForm.calls < MaxSubmits
    /\ testForm' = HandleSubmit(testForm)
    /\ UNCHANGED authVars

SaveResolve ==
    /\ testForm.saving # <<>>
    /\ testForm' = SaveSucceeded(testForm)
    /\ UNCHANGED authVars

SaveReject ==
    /\ testForm.saving # <<>>
    /\ testForm' = SaveFailed(testForm)
    /\ UNCHANGED authVars

FormNext ==
    \/ TaskSelect
    \/ TagsResolve
    \/ TagsReject
    \/ InputChange
    \/ StatusChange
    \/ ImagesChange
    \/ TagsChange
    \/ Submit
    \/ SaveResolve
    \/ SaveReject

FormSpec == FormInit /\ [][FormNext]_vars

---------------------------------------------------------------------------
\* A TagProvider and the components calling it.

MaxRuns == 3

TagLists == {<<>>, <<"ui">>, <<"api", "ui">>}
TagNames == {"ui", "perf"}

\* What the provider leaves alone.
nonTagVars == <<users, now, nextRandom, authToken, consumed, superseded, reqs, route, testForm>>

TagInit ==
    /\ users = <<>>
    /\ now = 0
    /\ nextRandom = 0
    /\ authToken = Undefined
    /\ consumed = {}
    /\ superseded = {}
    /\ reqs = <<>>
    /\ route = Page("/dashboard", "", FALSE)
    /\ testForm = NewForm(FALSE, "", "Ann")
    /\ tagCtx = NewTagProvider

\* getTags, getAllTags or createTag up to its await.
RunStart ==
    /\ tagCtx.started < MaxRuns
    /\ \E kind \in {"getTags", "getAllTags", "createTag"} :
          tagCtx' = [tagCtx EXCEPT !.state = RunBegins(tagCtx.state),
                                   !.runs = Append(tagCtx.runs, kind),
                                   !.started = tagCtx.started + 1]
    /\ UNCHANGED nonTagVars

\* A run after its await, the response having success: true.
RunSucceeds ==
    /\ \E k \in 1..Len(tagCtx.runs) :
         \E data \in IF tagCtx.runs[k] = "createTag" THEN TagNames ELSE TagLists :
           tagCtx' = [tagCtx EXCEPT
                        !.state = tagReducer(tagCtx.state, SuccessAction(tagCtx.runs[k], data)),
                        !.runs = Without(tagCtx.runs, k),
                        !.succeeded = tagCtx.succeeded + 1,
                        !.last = [kind |-> tagCtx.runs[k], data |-> data]]
    /\ UNCHANGED nonTagVars

\* A run after its await, in its catch block.
RunFails ==
    /\ \E k \in 1..Len(tagCtx.runs), failure \in Failures :
           tagCtx' = [tagCtx EXCEPT
                        !.state = tagReducer(tagCtx.state,
                                             [type |-> "SET_ERROR",
                                              payload |-> ErrorMessage(failure)]),
                        !.runs = Without(tagCtx.runs, k),
                        !.failed = tagCtx.failed + 1,
                        !.last = [kind |-> tagCtx.runs[k], data |-> <<>>]]
    /\ UNCHANGED nonTagVars

TagNext ==
    \/ RunStart
    \/ RunSucceeds
    \/ RunFails

TagSpec == TagInit /\ [][TagNext]_vars

---------------------------------------------------------------------------
\* Properties.

TenMinutes == 10 * 60 * 1000

\* The forms that pass the validation of POST /reset-password.
ValidForms == {f \in ResetForms : f[1] # "" /\ f[1] = f[2] /\ Len(f[1]) >= 6}

InvalidOrExpired == [success |-> FALSE, error |-> "Invalid or expired reset token"]

\* The tokens drawn so far.
Drawn == {RandomHex[i] : i \in 1..nextRandom}

\* The accounts holding the hash of a token.
Holders(token) == {i \in 1..Len(users) : users[i].resetPasswordToken = Sha256(token)}

\* C1: a reset token is usable once.  In every state, whatever happened since
\* the successful reset that used it, a reset request presenting a consumed
\* token changes no account and does not succeed, and when the request is
\* otherwise well-formed it is answered 400 "Invalid or expired reset token".
C1_ConsumedTokenRejected ==
    \A token \in consumed, form \in ResetForms, salt \in Salts, fault \in Faults :
        LET r == ResetPasswordPOST(users, now, token, form[1], form[2], salt, fault) IN
        /\ r.db = users
        /\ r.status # 200
        /\ (fault = "none" /\ form \in ValidForms) =>
               (r.status = 400 /\ r.body = InvalidOrExpired)

\* C1 witness: a token has been consumed and, since then, another token has
\* been issued and is outstanding.
C1_Witness ==
    /\ consumed # {}
    /\ \E token \in Drawn \ consumed : Holders(token) # {}

\* C2: an issuing request stores expiry = time of issue + 10 minutes, and a
\* well-formed reset presenting a stored token is accepted exactly when the
\* clock is strictly before the stored expiry.
C2_ExpiryWindow ==
    /\ \A email \in EmailInputs, env \in Envs, salt \in Salts :
          LET r == ForgotPasswordPOST(users, now, email, NextToken, env, salt, "none")
              id == ByEmail(users, ToLower(email))
          IN r.drew => r.db[id].resetPasswordExpires = now + TenMinutes
    /\ \A token \in Drawn, form \in ValidForms, salt \in Salts, t \in Instants :
          \A id \in Holders(token) :
              LET r == ResetPasswordPOST(users, t, token, form[1], form[2], salt, "none") IN
              /\ t < users[id].resetPasswordExpires => r.status = 200
              /\ t >= users[id].resetPasswordExpires =>
                     (r.status = 400 /\ r.body = InvalidOrExpired /\ r.db = users)

\* C2 witness: the clock stands exactly at the expiry of a stored token, issued
\* ten minutes earlier: its hash matches and it is rejected.
C2_Witness ==
    \E token \in Drawn : \E id \in Holders(token) :
        /\ users[id].resetPasswordExpires = now
        /\ now = TenMinutes

\* C3: with the storage working, POST /forgot-password answers every non-empty
\* email with status 200, success = true and one and the same message, whether
\* the account is active, inactive or absent.
C3_ForgotSameMessage ==
    \A email \in EmailInputs \ {""}, env \in Envs, salt \in Salts :
        LET r == ForgotPasswordPOST(users, now, email, NextToken, env, salt, "none") IN
        /\ r.status = 200
        /\ r.body.success = TRUE
        /\ r.body.message = GenericForgotMessage

\* C3 witness: the collection holds an active account, an inactive one, and
\* no account for cy@x.io: the three cases are all present.
C3_Witness ==
    /\ \E i \in 1..Len(users) : users[i].isActive
    /\ \E i \in 1..Len(users) : ~users[i].isActive
    /\ ByEmail(users, "cy@x.io") = 0

\* C4: an account with isFirstLogin = true gets no bearer token from
\* authenticate.  Whatever the request, the answer for such an account carries
\* no session token and the login page leaves localStorage 'auth-token' as it
\* was; with the correct secret on an active account the answer is the reset
\* requirement carrying a token that was just stored, hashed, on the account.
\* Hence the stored 'auth-token' is never the bearer of a first-login account.
C4_FirstLoginNoBearer ==
    /\ \A i \in 1..Len(users) : authToken = BearerFor(users[i]) => ~users[i].isFirstLogin
    /\ \A email \in LoginEmails, password \in LoginSecretInputs,
          salt \in Salts, fault \in Faults :
          LET id == ByEmail(users, ToLower(email))
              r == LoginPOST(users, now, email, password, NextToken, salt, fault)
          IN (id # 0 /\ users[id].isFirstLogin) =>
                /\ "data" \notin DOMAIN r.body
                /\ HandleSubmitAuthToken(authToken, r.status, r.body) = authToken
                /\ ( /\ users[id].isActive
                     /\ BcryptCompare(password, users[id].password)
                     /\ fault = "none" ) =>
                       /\ r.body = [success |-> TRUE, requiresPasswordReset |-> TRUE,
                                    resetToken |-> NextToken]
                       /\ r.db[id].resetPasswordToken = Sha256(NextToken)
                       /\ r.db[id].resetPasswordExpires = now + TenMinutes

\* C4 witness: an active first-login account holds a reset token, nothing is
\* stored in localStorage, and authenticate with its secret answers with the
\* reset requirement.
C4_Witness ==
    \E id \in 1..Len(users), secret \in Secrets :
        /\ users[id].isFirstLogin
        /\ users[id].isActive
        /\ users[id].resetPasswordToken # Undefined
        /\ authToken = Undefined
        /\ "requiresPasswordReset" \in DOMAIN
              LoginPOST(users, now, users[id].email, secret, NextToken, "s1", "none").body

\* C5: for a first-login account holding a valid reset token, a well-formed
\* reset succeeds and leaves isFirstLogin = false; the new secret verifies
\* against the stored hash, authenticate with it then returns a bearer token,
\* and a previously verifying secret different from the new one verifies no
\* longer.
C5_ResetThenAuthenticate ==
    \A id \in 1..Len(users), token \in Drawn, form \in ValidForms,
       old \in LoginSecretInputs, salt \in Salts :
        ( /\ id \in Holders(token)
          /\ users[id].isFirstLogin
          /\ users[id].isActive
          /\ users[id].resetPasswordExpires > now ) =>
            LET r == ResetPasswordPOST(users, now, token, form[1], form[2], salt, "none")
                a == LoginPOST(r.db, now, users[id].email, form[1], NextToken, salt, "none")
            IN /\ r.status = 200
               /\ ~r.db[id].isFirstLogin
               /\ comparePassword(r.db[id], form[1])
               /\ a.status = 200
               /\ "data" \in DOMAIN a.body
               /\ a.body.data.token = BearerFor(users[id])
               /\ ~a.db[id].isFirstLogin
               /\ (comparePassword(users[id], old) /\ old # form[1]) =>
                      ~comparePassword(r.db[id], old)

\* C6: authenticate fails in one and the same way when no account has the
\* email, when the account is inactive and when the secret does not verify:
\* status 401 with the generic body, no token of either kind, no account
\* changed, localStorage untouched.
C6_LoginFailureUniform ==
    \A email \in LoginEmails, password \in LoginSecretInputs,
       salt \in Salts, fault \in Faults \ {"connect"} :
        LET id == ByEmail(users, ToLower(email))
            r == LoginPOST(users, now, email, password, NextToken, salt, fault)
        IN (\/ id = 0
            \/ ~users[id].isActive
            \/ ~BcryptCompare(password, users[id].password)) =>
              /\ r.status = 401
              /\ r.body = LoginFailedBody
              /\ r.db = users
              /\ ~r.drew
              /\ HandleSubmitAuthToken(authToken, r.status, r.body) = authToken

\* C6 witness: an inactive account whose secret would verify, an active account
\* (for which hunter2xx is a wrong secret) and no account for cy@x.io.
C6_Witness ==
    /\ \E i \in 1..Len(users) :
          ~users[i].isActive /\ BcryptCompare("hunter2x", users[i].password)
    /\ \E i \in 1..Len(users) :
          users[i].isActive /\ ~BcryptCompare("hunter2xx", users[i].password)
    /\ ByEmail(users, "cy@x.io") = 0
    /\ authToken # Undefined

\* C7: for every account as the creation path stored it (secret one of the
\* valid secrets, account active), authenticate with the secret succeeds and
\* authenticate with the secret followed by "x" fails.
C7_StoredPairAuthenticates ==
    \A id \in 1..Len(users), secret \in Secrets, salt \in Salts :
        ( /\ users[id].isFirstLogin
          /\ users[id].isActive
          /\ users[id].password = BcryptHash(secret, salt) ) =>
            /\ LoginPOST(users, now, users[id].email, secret,
                         NextToken, salt, "none").status = 200
            /\ LoginPOST(users, now, users[id].email, secret \o "x",
                         NextToken, salt, "none").status = 401

\* The plaintexts the requests of the model carry.
Plaintexts == Secrets \cup {"short"} \cup {f[1] : f \in ResetForms}

\* C8: the stored password of every account is a bcrypt hash and none of the
\* plaintexts; and when hashing fails the save is aborted: a reset request or
\* an account creation hit by it writes nothing.
C8_PasswordStoredHashed ==
    /\ \A i \in 1..Len(users) :
          IsBcryptHash(users[i].password) /\ users[i].password \notin Plaintexts
    /\ \A token \in Drawn, form \in ResetForms, salt \in Salts :
          LET r == ResetPasswordPOST(users, now, token, form[1], form[2], salt, "hash")
          IN r.db = users /\ r.status # 200
    /\ \A email \in CreateEmails, password \in Secrets, salt \in Salts :
          CreateUserResult(users, "Alice", email, password, salt, "hash") = users

\* C8 witness: both write paths have run: an account still holds the hash its
\* creation stored, another the hash a reset stored.
C8_Witness ==
    /\ \E i \in 1..Len(users) : users[i].isFirstLogin /\ IsBcryptHash(users[i].password)
    /\ \E i \in 1..Len(users) : ~users[i].isFirstLogin /\ IsBcryptHash(users[i].password)
    /\ consumed # {}

\* C9: for every account, resetPasswordToken and resetPasswordExpires are both
\* absent or both present.
C9_TokenFieldsTogether ==
    \A i \in 1..Len(users) :
        (users[i].resetPasswordToken = Undefined) <=> (users[i].resetPasswordExpires = NoDate)

\* C9 witness: one account holds an outstanding token, another has had its
\* token cleared by a reset.
C9_Witness ==
    /\ \E i \in 1..Len(users) :
          users[i].resetPasswordToken # Undefined /\ users[i].resetPasswordExpires # NoDate
    /\ \E i \in 1..Len(users) :
          /\ ~users[i].isFirstLogin
          /\ users[i].resetPasswordToken = Undefined
          /\ users[i].resetPasswordExpires = NoDate

\* The tokens a well-formed reset request would accept for account id now.
AcceptedFor(id) ==
    {token \in Drawn \cup {"bogus"} :
        \E form \in ValidForms, salt \in Salts :
            ResetPasswordPOST(users, now, token, form[1], form[2], salt, "none").db[id]
                # users[id]}

\* C10: issuing a token for an account that has one outstanding overwrites the
\* stored hash and expiry.  A superseded token is rejected from then on, also
\* before its own expiry; an issuing request leaves the new token's hash and
\* expiry on the account and no earlier token able to change that account; at
\* most one token per account is accepted at any time.
C10_ReissueOverwrites ==
    /\ \A token \in superseded, form \in ResetForms, salt \in Salts, fault \in Faults :
          LET r == ResetPasswordPOST(users, now, token, form[1], form[2], salt, fault) IN
          /\ r.db = users
          /\ r.status # 200
          /\ (fault = "none" /\ form \in ValidForms) =>
                 (r.status = 400 /\ r.body = InvalidOrExpired)
    /\ \A id \in 1..Len(users) : Cardinality(AcceptedFor(id)) <= 1
    /\ \A email \in EmailInputs, env \in Envs, salt \in Salts :
          LET r == ForgotPasswordPOST(users, now, email, NextToken, env, salt, "none")
              id == ByEmail(users, ToLower(email))
          IN r.drew =>
                /\ r.db[id].resetPasswordToken = Sha256(NextToken)
                /\ r.db[id].resetPasswordExpires = now + TenMinutes
                /\ \A old \in Drawn, form \in ValidForms, t \in Instants :
                      ResetPasswordPOST(r.db, t, old, form[1], form[2],
                                        salt, "none").db[id] = r.db[id]

\* C10 witness: a token was overwritten less than ten minutes after the run
\* began, so before its own expiry, and the token that replaced it is
\* outstanding.
C10_Witness ==
    /\ superseded # {}
    /\ now < TenMinutes
    /\ \E token \in Drawn \ superseded : Holders(token) # {}

\* C11: a reset request whose form fails validation (a field missing, the two
\* passwords different, the password shorter than 6) is rejected before the
\* collection is queried: no lookup, no account changed, status 400 with the
\* message of the failed check when the database connection is up, and a
\* token that was valid before it is accepted afterwards.
C11_ValidationBeforeStorage ==
    \A token \in TokenInputs, form \in ResetForms, salt \in Salts, fault \in Faults :
        LET r == ResetPasswordPOST(users, now, token, form[1], form[2], salt, fault) IN
        (form \notin ValidForms \/ token = "") =>
            /\ r.db = users
            /\ ~r.queried
            /\ r.status # 200
            /\ fault # "connect" =>
                  /\ r.status = 400
                  /\ r.body.error =
                        IF token = "" \/ form[1] = "" \/ form[2] = ""
                        THEN "Token, password, and confirm password are required"
                        ELSE IF form[1] # form[2] THEN "Passwords do not match"
                        ELSE "Password must be at least 6 characters long"
            /\ \A good \in ValidForms :
                  ResetPasswordPOST(r.db, now, token, good[1], good[2], salt, "none").status
                    = ResetPasswordPOST(users, now, token, good[1], good[2], salt, "none").status

\* C11 witness: a token is outstanding and unexpired, and a request presenting
\* it with two different passwords is answered 400 while a well-formed one
\* would succeed.
C11_Witness ==
    \E token \in Drawn : \E id \in Holders(token) :
        /\ users[id].resetPasswordExpires > now
        /\ ResetPasswordPOST(users, now, token, "newpass1", "hunter2x", "s1", "none").status = 400
        /\ ResetPasswordPOST(users, now, token, "hunter2x", "hunter2x", "s1", "none").status = 200

\* C12: a reset request either succeeds and leaves the matched account with
\* all four effects applied (isFirstLogin false, password the hash of the new
\* one, both token fields cleared, lastLoginAt the current time) and every
\* other field and account as it was, or does not succeed and leaves the
\* collection as it was: nothing in between is stored.
C12_ResetAllOrNothing ==
    \A token \in TokenInputs, form \in ResetForms, salt \in Salts, fault \in Faults :
        LET r == ResetPasswordPOST(users, now, token, form[1], form[2], salt, fault)
            id == ByValidResetToken(users, Sha256(token), now)
        IN IF r.status = 200
           THEN /\ id # 0
                /\ r.db = [users EXCEPT ![id] =
                              [@ EXCEPT !.isFirstLogin = FALSE,
                                        !.password = BcryptHash(form[1], salt),
                                        !.resetPasswordToken = Undefined,
                                        !.resetPasswordExpires = NoDate,
                                        !.lastLoginAt = now]]
           ELSE r.db = users

\* C12 witness: a reset has succeeded at the current instant, after the clock
\* moved: the account shows the four effects together.
C12_Witness ==
    \E i \in 1..Len(users) :
        /\ now > 0
        /\ users[i].lastLoginAt = now
        /\ ~users[i].isFirstLogin
        /\ users[i].resetPasswordToken = Undefined
        /\ users[i].resetPasswordExpires = NoDate
        /\ users[i].password = BcryptHash("hunter2x", "s1")
        /\ consumed # {}

\* C13: POST /forgot-password stores a token only on an account that exists
\* and is active.  For an email no account has and for an inactive account,
\* whatever else happens, the collection is left as it was, no token is
\* drawn, logged or returned; a request that changes the collection changes
\* only the token fields of the active account the email names.
C13_IssueOnlyForActive ==
    \A email \in EmailInputs, env \in Envs, salt \in Salts, fault \in Faults :
        LET r == ForgotPasswordPOST(users, now, email, NextToken, env, salt, fault)
            id == ByEmail(users, ToLower(email))
        IN /\ (id = 0 \/ ~users[id].isActive) =>
                 /\ r.db = users
                 /\ ~r.drew
                 /\ r.logged = {}
                 /\ "resetToken" \notin DOMAIN r.body
           /\ r.db # users =>
                 /\ id # 0
                 /\ users[id].isActive
                 /\ r.db = [users EXCEPT ![id] =
                               [@ EXCEPT !.resetPasswordToken = Sha256(NextToken),
                                         !.resetPasswordExpires = now + TenMinutes]]
           /\ (id # 0 /\ users[id].isActive /\ fault = "none") =>
                 r.db[id].resetPasswordToken = Sha256(NextToken)

\* C13 witness: an inactive account still holds an unexpired token issued
\* while it was active, and a request for its email leaves it there.
C13_Witness ==
    \E i \in 1..Len(users) :
        /\ ~users[i].isActive
        /\ users[i].resetPasswordToken # Undefined
        /\ users[i].resetPasswordExpires > now
        /\ ForgotPasswordPOST(users, now, users[i].email, NextToken,
                              "production", "s1", "none").db = users

\* C14: the plaintext reset token is never stored and, in production, never
\* written to the server log: no account holds a drawn token in place of its
\* hash, and no POST /forgot-password running with NODE_ENV = production
\* logs the token it issued.
C14_PlaintextNeverStoredOrLogged ==
    /\ \A i \in 1..Len(users) :
          users[i].resetPasswordToken \notin {RandomHex[k] : k \in 1..Len(RandomHex)}
    /\ \A email \in EmailInputs, salt \in Salts, fault \in Faults :
          LET r == ForgotPasswordPOST(users, now, email, NextToken, "production", salt, fault)
          IN /\ r.logged = {}
             /\ \A i \in 1..Len(r.db) : r.db[i].resetPasswordToken # NextToken

\* C15: the answer of POST /forgot-password carries resetToken only when
\* NODE_ENV is development.  In any other environment the body for an active
\* existing account is exactly {success, message}, the body an unknown or
\* inactive account gets, and the login page shows the bare message.
C15_ResetTokenOnlyInDevelopment ==
    \A email \in EmailInputs \ {""}, env \in Envs, salt \in Salts :
        LET r == ForgotPasswordPOST(users, now, email, NextToken, env, salt, "none") IN
        /\ env # "development" =>
              /\ r.body = [success |-> TRUE, message |-> GenericForgotMessage]
              /\ r.body = ForgotNotFoundBody
              /\ r.body = ForgotInactiveBody
              /\ HandleForgotPasswordMessage(r.body) = GenericForgotMessage
        /\ "resetToken" \in DOMAIN r.body =>
              /\ env = "development"
              /\ r.drew
              /\ r.body.resetToken = NextToken

\* C15 witness: for an active account that went through a reset, the answer in
\* development carries the token and the answer in production is the generic
\* body.
C15_Witness ==
    \E i \in 1..Len(users) :
        /\ users[i].isActive
        /\ ~users[i].isFirstLogin
        /\ "resetToken" \in DOMAIN ForgotPasswordPOST(users, now, users[i].email, NextToken,
                                                     "development", "s1", "none").body
        /\ ForgotPasswordPOST(users, now, users[i].email, NextToken,
                              "production", "s1", "none").body = ForgotNotFoundBody

\* C16: a well-formed reset request is answered in one and the same way, 400
\* "Invalid or expired reset token" with no account changed, when no account
\* holds the token's hash and when an account holds it but it has expired.
C16_InvalidAndExpiredAlike ==
    \A token \in TokenInputs \ {""}, form \in ValidForms, salt \in Salts, t \in Instants :
        LET r == ResetPasswordPOST(users, t, token, form[1], form[2], salt, "none") IN
        ( \/ Holders(token) = {}
          \/ \A id \in Holders(token) : users[id].resetPasswordExpires <= t ) =>
            /\ r.status = 400
            /\ r.body = InvalidOrExpired
            /\ r.db = users

\* C16 witness: an account holds a token whose expiry has passed, and no
\* account holds the token "bogus".
C16_Witness ==
    /\ Holders("bogus") = {}
    /\ \E token \in Drawn : \E id \in Holders(token) : users[id].resetPasswordExpires < now

\* C17: stored emails are lower-case, no two accounts have the same email,
\* and POST /forgot-password does the same for the upper-case and the
\* lower-case spelling of an address, which name at most one account.
C17_EmailUniqueCaseInsensitive ==
    /\ \A i \in 1..Len(users) : users[i].email = ToLower(users[i].email)
    /\ \A i, j \in 1..Len(users) : i # j => users[i].email # users[j].email
    /\ \A email \in EmailInputs :
          Cardinality({i \in 1..Len(users) : users[i].email = ToLower(email)}) <= 1
    /\ \A env \in Envs, salt \in Salts, fault \in Faults :
          ForgotPasswordPOST(users, now, "AL@X.io", NextToken, env, salt, fault)
            = ForgotPasswordPOST(users, now, "al@x.io", NextToken, env, salt, fault)

\* C17 witness: two accounts exist, one of them al@x.io, and a request for
\* AL@X.io issues a token on it.
C17_Witness ==
    /\ Len(users) = 2
    /\ \E i \in 1..Len(users) :
          /\ users[i].email = "al@x.io"
          /\ ForgotPasswordPOST(users, now, "AL@X.io", NextToken, "production", "s1",
                                "none").db[i].resetPasswordToken = Sha256(NextToken)

\* C18: the password is hashed when it was set and only then.  Every stored
\* password is the hash of a plaintext, hashed once; POST /forgot-password,
\* whose save changes only the token fields, leaves every stored password as
\* it was, so the secrets that verified before it verify after it.
C18_HashOnlyWhenPasswordSet ==
    /\ \A i \in 1..Len(users) :
          \E p \in Plaintexts, salt \in Salts : users[i].password = BcryptHash(p, salt)
    /\ \A email \in EmailInputs, env \in Envs, salt \in Salts, fault \in Faults :
          LET r == ForgotPasswordPOST(users, now, email, NextToken, env, salt, fault) IN
          \A i \in 1..Len(users) :
              /\ r.db[i].password = users[i].password
              /\ \A secret \in LoginSecretInputs :
                    comparePassword(r.db[i], secret) = comparePassword(users[i], secret)

\* C18 witness: every token of the run has been drawn, and an account whose
\* password a reset set to hunter2x holds a token issued after that reset;
\* hunter2x still verifies.
C18_Witness ==
    /\ nextRandom = MaxTokens
    /\ \E i \in 1..Len(users) :
          /\ ~users[i].isFirstLogin
          /\ users[i].resetPasswordToken # Undefined
          /\ comparePassword(users[i], "hunter2x")

\* C19: of two reset requests in flight that present the same token, at most
\* one is answered 200 and at most one writes its password, however their
\* find and save steps interleave.
C19_OneResetPerToken ==
    \A i, j \in 1..Len(reqs) :
        ( /\ i # j
          /\ reqs[i].kind = "reset" /\ reqs[j].kind = "reset"
          /\ reqs[i].token = reqs[j].token ) =>
            ~(reqs[i].status = 200 /\ reqs[j].status = 200)

\* The forgot requests whose save was written, and the one written last.
ForgotSaved == {i \in 1..Len(reqs) : reqs[i].kind = "forgot" /\ reqs[i].order > 0}
LastForgotSaved == CHOOSE i \in ForgotSaved : \A j \in ForgotSaved : reqs[j].order <= reqs[i].order

\* The tokens returned by forgot requests that a well-formed reset request
\* would accept now.
ReturnedAccepted ==
    {i \in ForgotSaved :
        ResetPasswordPOST(users, now, reqs[i].issued, "hunter2x", "hunter2x",
                          "s1", "none").status = 200}

\* C20: when the requests in flight are forgot requests for the same account
\* and all have answered, the account holds the hash and the expiry that the
\* request whose save came last generated, and a reset request would accept
\* at most one of the tokens returned.
C20_ForgotLastWriteWins ==
    ( /\ \A i \in 1..Len(reqs) : reqs[i].kind = "forgot" /\ reqs[i].pc = "done"
      /\ ForgotSaved # {} ) =>
        LET last == reqs[LastForgotSaved] IN
        /\ users[last.id].resetPasswordToken = Sha256(last.issued)
        /\ users[last.id].resetPasswordExpires = last.m.doc.resetPasswordExpires
        /\ Cardinality(ReturnedAccepted) <= 1

\* C21: with a forgot request and a reset request presenting an earlier token
\* of the same account in flight together, once the forgot request's save is
\* written no reset presenting another token writes after it: the new token
\* stays on the account and the password is not replaced.
C21_ReissueSurvivesStaleReset ==
    \A i, j \in 1..Len(reqs) :
        ( /\ reqs[i].kind = "reset" /\ reqs[j].kind = "forgot"
          /\ reqs[j].order > 0
          /\ reqs[i].token # reqs[j].issued ) =>
            /\ reqs[i].order < reqs[j].order
            /\ (\A k \in 1..Len(reqs) : reqs[k].order <= reqs[j].order) =>
                  users[reqs[j].id].resetPasswordToken = Sha256(reqs[j].issued)

\* The fixed bodies of the two routes' catch blocks.
ForgotFailedBody == [success |-> FALSE, error |-> "Failed to process forgot password request"]
ResetFailedBody == [success |-> FALSE, error |-> "Failed to reset password"]

\* C22: a persistence failure in POST /forgot-password or POST /reset-password
\* is answered 500 with the route's fixed message and leaves the collection
\* as it was.  With the connection failing this holds for every request; with
\* the write failing it holds for every request that gets to its save, which
\* is made once: the request does not succeed on a second attempt.
C22_PersistenceFailureOpaque ==
    /\ \A email \in EmailInputs, env \in Envs, salt \in Salts, fault \in {"connect", "save"} :
          LET r == ForgotPasswordPOST(users, now, email, NextToken, env, salt, fault)
              ok == ForgotPasswordPOST(users, now, email, NextToken, env, salt, "none")
          IN /\ r.db = users
             /\ r.logged = {}
             /\ (fault = "connect" \/ ok.drew) =>
                    (r.status = 500 /\ r.body = ForgotFailedBody)
    /\ \A token \in TokenInputs, form \in ResetForms, salt \in Salts,
          fault \in {"connect", "save"} :
          LET r == ResetPasswordPOST(users, now, token, form[1], form[2], salt, fault)
              ok == ResetPasswordPOST(users, now, token, form[1], form[2], salt, "none")
          IN /\ r.db = users
             /\ (fault = "connect" \/ ok.status = 200) =>
                    (r.status = 500 /\ r.body = ResetFailedBody)

\* C22 witness: a draw was lost to a failed save (two tokens drawn, one
\* stored, none consumed or overwritten), and the stored token is one a
\* failing write would leave in place with a 500.
C22_Witness ==
    /\ nextRandom = 2 /\ consumed = {} /\ superseded = {}
    /\ Cardinality(StoredTokens(users)) = 1
    /\ \E token \in StoredTokens(users) :
          /\ ResetPasswordPOST(users, now, token, "hunter2x", "hunter2x", "s1", "save").status = 500
          /\ ResetPasswordPOST(users, now, token, "hunter2x", "hunter2x", "s1", "none").status = 200

\* C24: POST /reset-password does not read isActive.  For an account holding
\* the hash of the presented token, unexpired, a well-formed request succeeds
\* and stores the new password whether the account is active or not, leaves
\* isActive as it was, and answers the same with isActive flipped.
C24_ResetIgnoresIsActive ==
    \A token \in Drawn, form \in ValidForms, salt \in Salts :
        \A id \in Holders(token) :
            users[id].resetPasswordExpires > now =>
                LET r == ResetPasswordPOST(users, now, token, form[1], form[2], salt, "none")
                    flipped == [users EXCEPT ![id].isActive = ~@]
                    f == ResetPasswordPOST(flipped, now, token, form[1], form[2], salt, "none")
                IN /\ r.status = 200
                   /\ r.db[id].password = BcryptHash(form[1], salt)
                   /\ r.db[id].isActive = users[id].isActive
                   /\ f.status = 200
                   /\ f.db[id].password = r.db[id].password

\* C24 witness: an account was deactivated after a token was issued for it;
\* the token is unexpired and a reset presenting it succeeds.
C24_Witness ==
    \E token \in Drawn : \E id \in Holders(token) :
        /\ ~users[id].isActive
        /\ users[id].resetPasswordExpires > now
        /\ ResetPasswordPOST(users, now, token, "hunter2x", "hunter2x", "s1", "none").status = 200

\* C25: POST /reset-password changes at most the one account that holds the
\* hash of the presented token.  Every other account is left as it was, and
\* the matched account keeps its email, name and isActive.
C25_ResetChangesOnlyHolder ==
    \A token \in TokenInputs, form \in ResetForms, salt \in Salts, fault \in Faults :
        LET r == ResetPasswordPOST(users, now, token, form[1], form[2], salt, fault) IN
        /\ Len(r.db) = Len(users)
        /\ Cardinality(Holders(token)) <= 1
        /\ \A i \in 1..Len(users) :
              /\ i \notin Holders(token) => r.db[i] = users[i]
              /\ r.db[i].email = users[i].email
              /\ r.db[i].name = users[i].name
              /\ r.db[i].isActive = users[i].isActive

\* C25 witness: two accounts each hold an unexpired token of their own, and a
\* reset presenting the first one's token succeeds.
C25_Witness ==
    /\ Len(users) = 2
    /\ \A i \in 1..Len(users) :
          users[i].resetPasswordToken # Undefined /\ users[i].resetPasswordExpires > now
    /\ users[1].resetPasswordToken # users[2].resetPasswordToken
    /\ \E token \in Drawn :
          /\ Holders(token) = {1}
          /\ ResetPasswordPOST(users, now, token, "hunter2x", "hunter2x", "s1", "none").status = 200

\* Forms failing one check or several.
OrderForms == ResetForms \cup {<<"", "">>, <<"short", "">>, <<"short", "shorty">>,
                                <<"newpass1", "newpass2">>}

\* The message of the first check a form fails, "" when it passes them all.
FirstFailure(token, form) ==
    IF token = "" \/ form[1] = "" \/ form[2] = ""
    THEN "Token, password, and confirm password are required"
    ELSE IF form[1] # form[2] THEN "Passwords do not match"
    ELSE IF Len(form[1]) < 6 THEN "Password must be at least 6 characters long"
    ELSE ""

\* C26: POST /reset-password reports the first failing check in the order
\* missing field, mismatch, length, token lookup; a request failing a
\* validation check is answered the same whatever token it carries, and the
\* token error is reported only to a request that passed validation.
C26_ChecksInOrder ==
    \A token \in TokenInputs, form \in OrderForms, salt \in Salts :
        LET r == ResetPasswordPOST(users, now, token, form[1], form[2], salt, "none") IN
        /\ FirstFailure(token, form) # "" =>
              /\ r.status = 400
              /\ r.body = [success |-> FALSE, error |-> FirstFailure(token, form)]
              /\ \A other \in TokenInputs \ {""} :
                    token # "" =>
                        ResetPasswordPOST(users, now, other, form[1], form[2], salt, "none") = r
        /\ r.body = InvalidOrExpired =>
              (FirstFailure(token, form) = "" /\ ByValidResetToken(users, Sha256(token), now) = 0)

\* C26 witness: among the tokens a request can carry there is a valid one, an
\* expired one and one nobody holds.
C26_Witness ==
    /\ \E token \in Drawn : \E id \in Holders(token) : users[id].resetPasswordExpires > now
    /\ \E token \in Drawn : \E id \in Holders(token) : users[id].resetPasswordExpires <= now
    /\ Holders("bogus") = {}

\* C27: isFirstLogin never goes from false to true, and it goes from true to
\* false only in a step in which a reset succeeded.
C27_FirstLoginMonotone ==
    [][\A i \in 1..Len(users) :
          /\ ~users[i].isFirstLogin => ~users'[i].isFirstLogin
          /\ (users[i].isFirstLogin /\ ~users'[i].isFirstLogin) => consumed' # consumed]_vars

\* C27 witness: an account whose isFirstLogin a reset set to false has since
\* logged in and had another token issued.
C27_Witness ==
    \E i \in 1..Len(users) :
        /\ ~users[i].isFirstLogin
        /\ authToken = BearerFor(users[i])
        /\ users[i].resetPasswordToken # Undefined

\* A login request the server answers with a session: success without
\* requiresPasswordReset, carrying the bearer token.
SessionAnswers ==
    {r.body.data.token :
        r \in {a \in {LoginPOST(users, now, email, password, NextToken, "s1", fault) :
                        email \in LoginEmails, password \in LoginSecretInputs,
                        fault \in Faults} :
                  /\ a.status = 200
                  /\ a.body.success
                  /\ "requiresPasswordReset" \notin DOMAIN a.body}}

\* C23: every step of the browser follows the state machine.  localStorage
\* 'auth-token' changes only in a step on the login page whose response is a
\* session, to that response's bearer token, and that step leads to the
\* dashboard; the dashboard is entered in no other step; a step in which the
\* server drew a reset token for the login page's sign-in leads to the reset
\* page carrying that token, stored hashed on an account; a step in which a
\* reset succeeded stores nothing and shows the success screen, which leads
\* to the login page only.
C23_ClientStateMachine ==
    [][ /\ authToken' # authToken =>
              /\ route.path = "/login"
              /\ authToken' \in SessionAnswers
              /\ route'.path = "/dashboard"
        /\ (route'.path = "/dashboard" /\ route.path # "/dashboard") =>
              /\ route.path = "/login"
              /\ authToken' \in SessionAnswers
        /\ (route.path = "/login" /\ nextRandom' # nextRandom /\ route' # route) =>
              /\ route' = Page("/reset-password", NextToken, FALSE)
              /\ authToken' = authToken
              /\ \E i \in 1..Len(users') :
                    /\ users'[i].isFirstLogin
                    /\ users'[i].resetPasswordToken = Sha256(NextToken)
        /\ consumed' # consumed =>
              /\ authToken' = authToken
              /\ route' = Page("/reset-password", route.token, TRUE)
        /\ (route.path = "/reset-password" /\ route'.path # "/reset-password") =>
              /\ route.success
              /\ route' = Page("/login", "", FALSE)
              /\ authToken' = authToken
      ]_vars

\* C23 witness: the browser is on the dashboard holding the bearer token of an
\* account whose first login went through the reset page.
C23_Witness ==
    /\ route.path = "/dashboard"
    /\ consumed # {}
    /\ \E i \in 1..Len(users) :
          /\ authToken = BearerFor(users[i])
          /\ ~users[i].isFirstLogin
          /\ users[i].lastLoginAt # NoDate

\* C28: once a task has been selected and no getTagsByTaskId call is in
\* flight, taskTags are the tags of the task formData.taskId names, which is
\* the selected task, and so are the selectedTags as long as the user has not
\* changed them, in whatever order the calls completed.
C28_TagsOfSelectedTask ==
    ( /\ testForm.selections > 0
      /\ testForm.fetches = <<>>
      /\ testForm.taskId # "" ) =>
        /\ testForm.selectedTask = testForm.taskId
        /\ testForm.taskTags = TagsOfTask(testForm.taskId)
        /\ ~testForm.touched => testForm.selectedTags = TagsOfTask(testForm.taskId)

\* The initial values of formData.
InitialFormData == [taskId |-> "", status |-> "fail", feedback |-> "", attachedImages |-> <<>>]

\* formData, of the fields of the component's state.
FormData(f) ==
    [taskId |-> f.taskId, status |-> f.status, feedback |-> f.feedback,
     attachedImages |-> f.attachedImages]

\* C29: every step of the form obeys the submission rules.  A save call is
\* made only from a state with a task selected, feedback that is non-empty
\* after trimming and a named user, and carries the trimmed feedback; onSuccess
\* is invoked exactly in the steps in which a save call resolved; such a step
\* resets the form to its initial values when creating and leaves formData
\* alone when editing; a step in which a save call was rejected leaves the
\* form data as entered and invokes nothing; and a selected task is
\* deselected in no step but a resolved create.
C29_SubmitRules ==
    [][ /\ testForm'.calls # testForm.calls =>
              /\ testForm.taskId # ""
              /\ Trim(testForm.feedback) # ""
              /\ testForm.userName # ""
              /\ testForm'.calls = testForm.calls + 1
              /\ testForm'.saving = <<[taskId |-> testForm.taskId,
                                      status |-> testForm.status,
                                      feedback |-> Trim(testForm.feedback),
                                      attachedImages |-> testForm.attachedImages,
                                      testerName |-> testForm.userName,
                                      passed |-> (testForm.status = "pass"),
                                      notes |-> testForm.feedback,
                                      update |-> testForm.edit]>>
        /\ (testForm'.onSuccess # testForm.onSuccess) <=>
              (testForm'.succeeded # testForm.succeeded)
        /\ testForm'.succeeded # testForm.succeeded =>
              /\ testForm.saving # <<>>
              /\ testForm'.onSuccess = testForm.onSuccess + 1
              /\ IF testForm.edit
                 THEN FormData(testForm') = FormData(testForm)
                 ELSE /\ FormData(testForm') = InitialFormData
                      /\ testForm'.selectedTask = ""
                      /\ testForm'.taskTags = <<>>
                      /\ testForm'.selectedTags = <<>>
        /\ testForm'.failed # testForm.failed =>
              /\ FormData(testForm') = FormData(testForm)
              /\ testForm'.selectedTask = testForm.selectedTask
              /\ testForm'.selectedTags = testForm.selectedTags
              /\ testForm'.onSuccess = testForm.onSuccess
        /\ (testForm.taskId # "" /\ testForm'.taskId = "") =>
              (testForm'.succeeded # testForm.succeeded /\ ~testForm.edit)
      ]_vars

\* C29 witness: in create mode one save call was rejected and a later one
\* resolved: the form is back at its initial values and onSuccess ran once.
C29_Witness ==
    /\ ~testForm.edit
    /\ testForm.failed = 1 /\ testForm.succeeded = 1 /\ testForm.onSuccess = 1
    /\ FormData(testForm) = InitialFormData
    /\ testForm.selections > 0

\* C30: every step in which a run of getTags, getAllTags or createTag ends
\* leaves loading = false.  When the run succeeded error is null and only its
\* list changed: tags replaced by the data for getTags, allTags replaced for
\* getAllTags, the returned tag appended to tags for createTag.  When it
\* failed error is a message and tags and allTags are as they were.
C30_TagRunsEnd ==
    [][ /\ tagCtx'.succeeded # tagCtx.succeeded =>
              /\ tagCtx'.state.loading = FALSE
              /\ tagCtx'.state.error = Null
              /\ CASE tagCtx'.last.kind = "getTags" ->
                        /\ tagCtx'.state.tags = tagCtx'.last.data
                        /\ tagCtx'.state.allTags = tagCtx.state.allTags
                   [] tagCtx'.last.kind = "getAllTags" ->
                        /\ tagCtx'.state.allTags = tagCtx'.last.data
                        /\ tagCtx'.state.tags = tagCtx.state.tags
                   [] OTHER ->
                        /\ tagCtx'.state.tags = tagCtx.state.tags \o <<tagCtx'.last.data>>
                        /\ tagCtx'.state.allTags = tagCtx.state.allTags
        /\ tagCtx'.failed # tagCtx.failed =>
              /\ tagCtx'.state.loading = FALSE
              /\ tagCtx'.state.error \notin {Null, ""}
              /\ tagCtx'.state.tags = tagCtx.state.tags
              /\ tagCtx'.state.allTags = tagCtx.state.allTags
      ]_vars

\* C30 witness: runs have ended both ways, the last one failing: tags and
\* allTags hold what earlier runs stored and error holds the message.
C30_Witness ==
    /\ tagCtx.succeeded = 2 /\ tagCtx.failed = 1
    /\ tagCtx.runs = <<>>
    /\ tagCtx.state.tags = <<"ui", "perf">>
    /\ tagCtx.state.error = "Network Error"
    /\ ~tagCtx.state.loading

====
